---- MODULE Spec2Model ----
(***************************************************************************)
(* The DAO application of src/app.py (proposal registry, vote tally,       *)
(* ballot guard, winner pointer, minting bridge) as a state machine.       *)
(* Every application call is one AVM transaction: it runs to completion    *)
(* or is rejected as a whole, so every handler is one atomic action.       *)
(* A failing Assert has no error kind in the code; the model tags each     *)
(* rejection with the check that raised it.  The application account is    *)
(* taken to hold enough balance for the boxes that vote creates.           *)
(***************************************************************************)
EXTENDS Integers, Sequences, FiniteSets, TLC

\* ---------------------------------------------------------------- bounds
NumAccounts == 3        \* accounts that send vote and mint calls
MaxMints == 2           \* assets the minter creates in one behaviour

Accounts == 1..NumAccounts
Proposers == {1, 2}      \* accounts that send add_proposal and are named as proposer
ProposalIds == {0}       \* the proposal_id arguments

\* ------------------------------------------------------- ledger parameters
AppAddress == 0             \* Global.current_application_address()
AccountMinBalance == 100000 \* minimum balance of an account without boxes
BoxFlatMinBalance == 2500   \* minimum balance charged per box
BoxByteMinBalance == 400    \* minimum balance charged per byte of box name and value
AddressLen == 32            \* abi.Address
Uint64Len == 8              \* abi.Uint64
BoolLen == 1                \* abi.Bool
PrefixLen == 2              \* Bytes("p-"), Bytes("v-")
HashLen == 32               \* abi.StaticArray[abi.Byte, 32]
OffsetLen == 2              \* head slot and length prefix of a dynamic abi.String

\* receivers of the payment grouped with add_proposal: the application or an account
Receivers == {AppAddress, 1}

\* NFTProposal values the callers submit (two records of different encoded length)
ProposalSet ==
  { [url |-> "u", metadata_hash |-> "h", name |-> "n", unit_name |-> "s", reserve |-> 1],
    [url |-> "uu", metadata_hash |-> "h", name |-> "n", unit_name |-> "s", reserve |-> 2] }

\* an NFTProposal() that nothing was stored into
NoProposal == [url |-> "", metadata_hash |-> "", name |-> "", unit_name |-> "", reserve |-> 0]

\* length in bytes of the ABI encoding of an NFTProposal
ProposalLen(p) ==
  (OffsetLen + HashLen + OffsetLen + OffsetLen + AddressLen)
    + (OffsetLen + Len(p.url)) + (OffsetLen + Len(p.name)) + (OffsetLen + Len(p.unit_name))

\* abi.Tuple2[abi.Address, abi.Uint64].encode(): the address followed by the id
Encode(addr, id) == <<addr, id>>

\* the encoded bytes of winning_proposal before any vote: Bytes("")
EmptyBytes == <<>>

Keys == { Encode(a, i) : a \in Proposers, i \in ProposalIds }

VARIABLES
  winning_proposal_votes,  \* global uint64
  winning_proposal,        \* global bytes: an encoded proposal key or EmptyBytes
  has_voted,               \* boxes keyed by address
  proposals,               \* boxes "p-" ++ key
  votes,                   \* boxes "v-" ++ key
  assets,                  \* assets created by the minter application, in order
  last,                    \* the last call: its arguments and its outcome
  accepted                 \* history: vote calls accepted so far, per sender and key

vars ==
  <<winning_proposal_votes, winning_proposal, has_voted, proposals, votes, assets, last, accepted>>

dao == <<winning_proposal_votes, winning_proposal, has_voted, proposals, votes>>

\* ------------------------------------------------------------ box storage
BoxExists(box, key) == key \in DOMAIN box

BoxSet(box, key, val) == [k \in (DOMAIN box) \cup {key} |-> IF k = key THEN val ELSE box[k]]

RECURSIVE SumProposalLen(_, _)
SumProposalLen(box, keys) ==
  IF keys = {} THEN 0
  ELSE LET k == CHOOSE x \in keys : TRUE
       IN ProposalLen(box[k]) + SumProposalLen(box, keys \ {k})

\* AccountParam.minBalance of the application account
minBalance(hv, pr, vt) ==
  AccountMinBalance
    + Cardinality(DOMAIN hv) * (BoxFlatMinBalance + BoxByteMinBalance * (AddressLen + BoolLen))
    + Cardinality(DOMAIN vt)
        * (BoxFlatMinBalance + BoxByteMinBalance * (PrefixLen + AddressLen + Uint64Len + Uint64Len))
    + Cardinality(DOMAIN pr) * (BoxFlatMinBalance + BoxByteMinBalance * (PrefixLen + AddressLen + Uint64Len))
    + BoxByteMinBalance * SumProposalLen(pr, DOMAIN pr)

State(wpv, wp, hv, pr, vt) ==
  [winning_proposal_votes |-> wpv, winning_proposal |-> wp, has_voted |-> hv,
   proposals |-> pr, votes |-> vt]

Current == State(winning_proposal_votes, winning_proposal, has_voted, proposals, votes)

\* mutation: the writes made before a failing Assert persist
Commit_partial(err, pre, post) == post

\* a transaction whose Assert fails is rejected and none of its writes persist
Commit(err, pre, post) == IF err = "" THEN post ELSE pre

Install(st) ==
  /\ winning_proposal_votes' = st.winning_proposal_votes
  /\ winning_proposal' = st.winning_proposal
  /\ has_voted' = st.has_voted
  /\ proposals' = st.proposals
  /\ votes' = st.votes

Call(op, sender, key, proposal, err, output) ==
  [op |-> op, sender |-> sender, key |-> key, proposal |-> proposal, err |-> err, output |-> output]

Init ==
  /\ winning_proposal_votes = 0
  /\ winning_proposal = EmptyBytes
  /\ has_voted = <<>>
  /\ proposals = <<>>
  /\ votes = <<>>
  /\ assets = <<>>
  /\ last = Call("create", 0, EmptyBytes, NoProposal, "", 0)
  /\ accepted = [i \in Accounts |-> [k \in Keys |-> 0]]

\* ------------------------------------------------------------ add_proposal
\* mutation: the payment check is off by one
PaymentCovers_offbyone(amount, current_mbr, pre_mbr) == amount + 1 >= current_mbr - pre_mbr

\* mutation: a payment of exactly the difference is refused
PaymentCovers_strict(amount, current_mbr, pre_mbr) == amount > current_mbr - pre_mbr

PaymentCovers(amount, current_mbr, pre_mbr) == amount >= current_mbr - pre_mbr

\* mutation: the existence check is missing
ProposalExists_unchecked(pr, proposal_key) == FALSE

ProposalExists(pr, proposal_key) == BoxExists(pr, proposal_key)

\* mutation: the key is built from the proposal id alone, under one fixed address
SubmitKey_idonly(sender, proposal_id) == Encode(1, proposal_id)

\* proposal_key.set(addr, proposal_id) with addr = Txn.sender()
SubmitKey(sender, proposal_id) == Encode(sender, proposal_id)

\* the handler up to its first failing Assert: the error and the state written so far
add_proposal_run(st, sender, proposal, proposal_id, receiver, amount) ==
  LET proposal_key == SubmitKey(sender, proposal_id)
      pre_mbr == minBalance(st.has_voted, st.proposals, st.votes)
      written == [st EXCEPT !.proposals = BoxSet(st.proposals, proposal_key, proposal)]
      current_mbr == minBalance(written.has_voted, written.proposals, written.votes)
  IN IF receiver # AppAddress THEN [err |-> "WrongReceiver", st |-> st]
     ELSE IF ProposalExists(st.proposals, proposal_key) THEN [err |-> "DuplicateProposal", st |-> st]
     ELSE IF ~PaymentCovers(amount, current_mbr, pre_mbr)
          THEN [err |-> "InsufficientFunding", st |-> written]
     ELSE [err |-> "", st |-> written]

\* payment amounts the callers attach
Amounts ==
  LET d(p) == BoxFlatMinBalance
                + BoxByteMinBalance * (PrefixLen + AddressLen + Uint64Len + ProposalLen(p))
  IN UNION { {d(p) - 1, d(p)} : p \in ProposalSet }

add_proposal(sender, proposal, proposal_id, receiver, amount) ==
  LET r == add_proposal_run(Current, sender, proposal, proposal_id, receiver, amount)
  IN /\ Install(Commit(r.err, Current, r.st))
     /\ last' = Call("add_proposal", sender, Encode(sender, proposal_id), proposal, r.err, 0)
     /\ UNCHANGED <<assets, accepted>>

\* -------------------------------------------------------------------- vote
\* mutation: the has_voted check is missing
AlreadyVoted_unchecked(hv, sender) == FALSE

AlreadyVoted(hv, sender) == BoxExists(hv, sender)

\* mutation: the count before the increment is compared
NowWinning_stale(total_votes, wpv) == total_votes - 1 > wpv

\* mutation: a tie moves the pointer
NowWinning_tie(total_votes, wpv) == total_votes >= wpv

NowWinning(total_votes, wpv) == total_votes > wpv

\* mutation: has_voted is written under the proposer's address
VoterKey_proposer(sender, proposer) == proposer

\* the has_voted box that vote writes: Txn.sender()
VoterKey(sender, proposer) == sender

\* mutation: a new counter starts at one
InitialVotes_one(vt, proposal_key) ==
  IF ~BoxExists(vt, proposal_key) THEN BoxSet(vt, proposal_key, 1) ELSE vt

\* mutation: the counter is written to zero on every vote, also when it exists
InitialVotes_reset(vt, proposal_key) == BoxSet(vt, proposal_key, 0)

\* the votes boxes after the lazy creation of the counter
InitialVotes(vt, proposal_key) ==
  IF ~BoxExists(vt, proposal_key) THEN BoxSet(vt, proposal_key, 0) ELSE vt

\* mutation: the count is stored without the increment
Increment_none(current_votes) == current_votes

Increment(current_votes) == current_votes + 1

\* mutation: the count read before the increment is stored as the winning count
WinningVotes_stale(total_votes, current_votes) == current_votes

\* the value written to winning_proposal_votes: total_votes
WinningVotes(total_votes, current_votes) == total_votes

vote_run(st, sender, proposer, proposal_id) ==
  LET proposal_key == Encode(proposer, proposal_id)
      votes0 == InitialVotes(st.votes, proposal_key)
      current_votes == votes0[proposal_key]
      total_votes == Increment(current_votes)
      votes1 == BoxSet(votes0, proposal_key, total_votes)
      winning == NowWinning(total_votes, st.winning_proposal_votes)
  IN IF AlreadyVoted(st.has_voted, sender) THEN [err |-> "AlreadyVoted", st |-> st]
     ELSE [err |-> "",
           st |-> State(IF winning THEN WinningVotes(total_votes, current_votes)
                                   ELSE st.winning_proposal_votes,
                        IF winning THEN proposal_key ELSE st.winning_proposal,
                        BoxSet(st.has_voted, VoterKey(sender, proposer), TRUE),
                        st.proposals,
                        votes1)]

vote(sender, proposer, proposal_id) ==
  LET r == vote_run(Current, sender, proposer, proposal_id)
  IN /\ Install(Commit(r.err, Current, r.st))
     /\ last' = Call("vote", sender, Encode(proposer, proposal_id), NoProposal, r.err, 0)
     /\ accepted' = IF r.err = ""
                    THEN [accepted EXCEPT ![sender][Encode(proposer, proposal_id)] = @ + 1]
                    ELSE accepted
     /\ UNCHANGED assets

\* -------------------------------------------------------------------- mint
\* mutation: the asset name and the unit name are exchanged
mint_nft_swapped(proposal) ==
  [name |-> proposal.unit_name, unit_name |-> proposal.name, reserve |-> proposal.reserve,
   url |-> proposal.url, metadata_hash |-> proposal.metadata_hash, total |-> 1]

\* the minter's AssetConfig inner transaction
mint_nft(proposal) ==
  [name |-> proposal.name, unit_name |-> proposal.unit_name, reserve |-> proposal.reserve,
   url |-> proposal.url, metadata_hash |-> proposal.metadata_hash, total |-> 1]

\* the ABI return log of the minter: the return prefix followed by Itob(asset id)
ReturnLog(asset_id) == <<"151f7c75", asset_id>>

\* Btoi(Suffix(InnerTxn.last_log(), Int(4)))
Output(log) == log[2]

\* mutation: the box is read without the check that it exists
ProposalMissing_unchecked(pr, proposal_key) == FALSE

\* dao.state.proposals[proposal_key].store_into(proposal): the box must exist
ProposalMissing(pr, proposal_key) == ~BoxExists(pr, proposal_key)

\* mutation: mint deletes the proposal it minted
mint_state_consumed(st) ==
  [st EXCEPT !.proposals =
     [k \in (DOMAIN st.proposals) \ {st.winning_proposal} |-> st.proposals[k]]]

\* mutation: mint consumes the winner
mint_state_reset(st) == [st EXCEPT !.winning_proposal = EmptyBytes, !.winning_proposal_votes = 0]

\* state of the DAO after a mint call that reached the minter: mint writes no DAO state
mint_state(st) == st

mint(minter_ok) ==
  LET proposal_key == winning_proposal   \* decode() keeps the stored bytes
      missing == ProposalMissing(proposals, proposal_key)
      proposal == IF BoxExists(proposals, proposal_key) THEN proposals[proposal_key] ELSE NoProposal
      err == IF missing THEN "NotFound" ELSE IF ~minter_ok THEN "MintingFailure" ELSE ""
      asset_id == Len(assets) + 1
  IN /\ (err = "" => Len(assets) < MaxMints)
     /\ Install(Commit(err, Current, mint_state(Current)))
     /\ assets' = IF err = "" THEN Append(assets, mint_nft(proposal)) ELSE assets
     /\ last' = Call("mint", 0, proposal_key, proposal, err,
                     IF err = "" THEN Output(ReturnLog(asset_id)) ELSE 0)
     /\ UNCHANGED accepted

\* ----------------------------------------------------------- specification
AddProposalStep ==
  \E sender \in Proposers, proposal \in ProposalSet, proposal_id \in ProposalIds,
     receiver \in Receivers, amount \in Amounts :
    add_proposal(sender, proposal, proposal_id, receiver, amount)

VoteStep ==
  \E sender \in Accounts, proposer \in Proposers, proposal_id \in ProposalIds :
    vote(sender, proposer, proposal_id)

MintStep == \E minter_ok \in BOOLEAN : mint(minter_ok)

Next == AddProposalStep \/ VoteStep \/ MintStep

Spec == Init /\ [][Next]_vars

\* ------------------------------------------------------------------ claims
IsCall(c, op) == c.op = op
Failed(c) == c.err # ""

RECURSIVE SumVotes(_, _)
SumVotes(box, keys) ==
  IF keys = {} THEN 0
  ELSE LET k == CHOOSE x \in keys : TRUE
       IN box[k] + SumVotes(box, keys \ {k})

\* C1: once an account's has_voted box exists it is never removed, and every
\* later vote call by that account, on any key, fails at the has_voted check
\* and changes no vote count.
DoubleVotePrevention ==
  [][\A i \in DOMAIN has_voted :
        /\ BoxExists(has_voted', i)
        /\ (IsCall(last', "vote") /\ last'.sender = i)
             => (last'.err = "AlreadyVoted" /\ votes' = votes)]_vars

DoubleVoteRejected ==
  /\ IsCall(last, "vote") /\ last.err = "AlreadyVoted"
  /\ BoxExists(has_voted, last.sender)
  /\ \E k \in DOMAIN votes : k # last.key

\* C2: winning_proposal_votes is the maximum of the stored vote counts (0 when
\* no count is stored), hence at least every stored vote count.
WinnerIsMax ==
  /\ \A k \in DOMAIN votes : winning_proposal_votes >= votes[k]
  /\ IF DOMAIN votes = {} THEN winning_proposal_votes = 0
     ELSE \E k \in DOMAIN votes : winning_proposal_votes = votes[k]

WinnerIsMaxReached ==
  \E k1 \in DOMAIN votes, k2 \in DOMAIN votes :
    /\ votes[k1] < votes[k2]
    /\ winning_proposal = k2
    /\ winning_proposal_votes = votes[k2]

\* C3: an accepted vote moves the winner pointer exactly when the incremented
\* count is strictly greater than the stored winning count, and then to that
\* count and key; a vote that only ties leaves both globals unchanged.
TieBreak ==
  [][(IsCall(last', "vote") /\ ~Failed(last'))
       => IF votes'[last'.key] > winning_proposal_votes
          THEN /\ winning_proposal_votes' = votes'[last'.key]
               /\ winning_proposal' = last'.key
          ELSE UNCHANGED <<winning_proposal_votes, winning_proposal>>]_vars

TieLeavesPointer ==
  /\ IsCall(last, "vote") /\ ~Failed(last)
  /\ votes[last.key] = winning_proposal_votes
  /\ winning_proposal # last.key

\* C4: the sum of all stored vote counts equals the number of has_voted boxes.
TallyConservation == SumVotes(votes, DOMAIN votes) = Cardinality(DOMAIN has_voted)

TallySpread ==
  /\ Cardinality(DOMAIN has_voted) >= 3
  /\ Cardinality(DOMAIN votes) >= 2

\* C5: a stored proposal is never overwritten or removed, and every later
\* add_proposal at its key fails: at the existence check whenever the payment
\* goes to the application.
ProposalImmutable ==
  [][\A k \in DOMAIN proposals :
        /\ BoxExists(proposals', k)
        /\ proposals'[k] = proposals[k]
        /\ (IsCall(last', "add_proposal") /\ last'.key = k) => Failed(last')
        /\ \A sender \in Proposers, proposal \in ProposalSet, proposal_id \in ProposalIds,
              amount \in Amounts :
             (k = Encode(sender, proposal_id)
                /\ add_proposal(sender, proposal, proposal_id, AppAddress, amount))
               => last'.err = "DuplicateProposal"]_vars

DuplicateRejected ==
  /\ IsCall(last, "add_proposal") /\ last.err = "DuplicateProposal"
  /\ BoxExists(proposals, last.key)
  /\ proposals[last.key] # last.proposal

\* C6: an add_proposal at an absent key, paid to the application with an amount
\* below the growth of the minimum balance caused by the write, fails at the
\* payment check and the key is absent afterwards.
FundingEnforcement ==
  [][\A sender \in Proposers, proposal \in ProposalSet, proposal_id \in ProposalIds,
        amount \in Amounts :
        LET k == Encode(sender, proposal_id)
            delta == minBalance(has_voted, BoxSet(proposals, k, proposal), votes)
                       - minBalance(has_voted, proposals, votes)
        IN (/\ ~BoxExists(proposals, k)
            /\ amount < delta
            /\ add_proposal(sender, proposal, proposal_id, AppAddress, amount))
             => /\ last'.err = "InsufficientFunding"
                /\ ~BoxExists(proposals', k)
                /\ proposals' = proposals]_vars

UnderfundedRejected ==
  /\ IsCall(last, "add_proposal") /\ last.err = "InsufficientFunding"
  /\ ~BoxExists(proposals, last.key)

\* C7: whenever winning_proposal is not empty a proposal is stored at that key,
\* so mint never fails at the read of the proposal box.
WinnerProposalStored ==
  /\ winning_proposal # EmptyBytes => BoxExists(proposals, winning_proposal)
  /\ ~(IsCall(last, "mint") /\ last.err = "NotFound" /\ winning_proposal # EmptyBytes)

\* C8: mint changes no DAO state, resolves the proposal stored at
\* winning_proposal, and two mint calls in a row resolve the same proposal.
FinalizeDeterminism ==
  [][IsCall(last', "mint")
       => /\ UNCHANGED dao
          /\ last'.err # "NotFound" => last'.proposal = proposals[winning_proposal]
          /\ IsCall(last, "mint") => last'.proposal = last.proposal]_vars

MintRepeated ==
  /\ IsCall(last, "mint") /\ ~Failed(last)
  /\ Len(assets) = 2
  /\ assets[1] = assets[2]

\* C9: while no vote has been cast winning_proposal is empty, and every mint
\* call made while it is empty fails and creates no asset.
NoWinnerFails ==
  [][(IsCall(last', "mint") /\ (DOMAIN has_voted = {} \/ winning_proposal = EmptyBytes))
       => /\ winning_proposal = EmptyBytes
          /\ DOMAIN has_voted = {}
          /\ Failed(last')
          /\ assets' = assets]_vars

NoWinnerMintTried ==
  /\ IsCall(last, "mint") /\ Failed(last)
  /\ winning_proposal = EmptyBytes
  /\ DOMAIN proposals # {}

\* C10: a call that fails leaves every global, every box and the created
\* assets as they were.
AllOrNothing == [][Failed(last') => UNCHANGED <<dao, assets>>]_vars

FailedOnPopulatedLedger ==
  /\ last.err = "InsufficientFunding"
  /\ DOMAIN proposals # {}
  /\ DOMAIN votes # {}

\* C11: an add_proposal call succeeds exactly when its payment goes to the
\* application, no proposal is stored at the key and the amount is at least
\* the growth of the minimum balance caused by the write (equal and larger
\* amounts alike); on success the proposal is stored at the key.
SubmitSucceedsExactlyWhen ==
  [][IsCall(last', "add_proposal")
       => LET sender == last'.sender
              proposal == last'.proposal
              proposal_id == last'.key[2]
              k == Encode(sender, proposal_id)
              delta == minBalance(has_voted, BoxSet(proposals, k, proposal), votes)
                         - minBalance(has_voted, proposals, votes)
          IN \A receiver \in Receivers, amount \in Amounts :
               add_proposal(sender, proposal, proposal_id, receiver, amount)
                 => /\ ~Failed(last')
                         <=> (receiver = AppAddress /\ ~BoxExists(proposals, k) /\ amount >= delta)
                    /\ ~Failed(last') => (BoxExists(proposals', k) /\ proposals'[k] = proposal)]_vars

SubmitAccepted ==
  /\ IsCall(last, "add_proposal") /\ ~Failed(last)
  /\ BoxExists(proposals, last.key)
  /\ proposals[last.key] = last.proposal
  /\ Cardinality(DOMAIN proposals) = 2

\* C12: a vote call by an account without a has_voted box succeeds on any
\* key, with or without a proposal stored there: the counter is created at 0
\* when absent and then incremented, and the has_voted box is written.
VoteOnlyFailsAlreadyVoted ==
  [][\A sender \in Accounts, proposer \in Proposers, proposal_id \in ProposalIds :
        LET k == Encode(proposer, proposal_id)
        IN vote(sender, proposer, proposal_id)
             => /\ Failed(last') <=> BoxExists(has_voted, sender)
                /\ Failed(last') => last'.err = "AlreadyVoted"
                /\ ~Failed(last')
                     => /\ BoxExists(has_voted', sender)
                        /\ BoxExists(votes', k)
                        /\ ~BoxExists(votes, k) => votes'[k] = 1]_vars

VoteForUnregisteredKey ==
  /\ IsCall(last, "vote") /\ ~Failed(last)
  /\ ~BoxExists(proposals, last.key)
  /\ votes[last.key] = 1

\* C13: an accepted vote raises the count of its key by exactly 1 (from 0 when
\* the counter did not exist) and changes no other count; no step lowers or
\* removes a count.
VoteCountStep ==
  [][/\ \A k \in DOMAIN votes : BoxExists(votes', k) /\ votes'[k] >= votes[k]
     /\ (IsCall(last', "vote") /\ ~Failed(last'))
          => /\ votes'[last'.key]
                  = (IF BoxExists(votes, last'.key) THEN votes[last'.key] ELSE 0) + 1
             /\ \A k \in DOMAIN votes' \ {last'.key} :
                  BoxExists(votes, k) /\ votes'[k] = votes[k]
     /\ ~(IsCall(last', "vote") /\ ~Failed(last')) => votes' = votes]_vars

SecondVoteCounted ==
  /\ IsCall(last, "vote") /\ ~Failed(last)
  /\ votes[last.key] = 2
  /\ \E k \in DOMAIN votes : k # last.key

RECURSIVE SumOver(_, _)
SumOver(f, S) ==
  IF S = {} THEN 0
  ELSE LET x == CHOOSE y \in S : TRUE
       IN f[x] + SumOver(f, S \ {x})

\* vote calls accepted on key k, over all senders
AcceptedOn(k) == SumOver([i \in Accounts |-> accepted[i][k]], Accounts)

\* vote calls of account i accepted, over all keys
AcceptedFrom(i) == SumOver(accepted[i], Keys)

\* C14: in whatever order vote calls of distinct accounts on one key are
\* executed, none is lost: the count stored at the key equals the number of
\* calls accepted on it, and when the pointer names the key the winning count
\* is that number too (the result of executing the calls one after another).
NoLostUpdate ==
  /\ \A k \in Keys :
       (IF BoxExists(votes, k) THEN votes[k] ELSE 0) = AcceptedOn(k)
  /\ \A k \in Keys : winning_proposal_votes >= AcceptedOn(k)
  /\ winning_proposal \in Keys => winning_proposal_votes = AcceptedOn(winning_proposal)

AllVotedSameKey ==
  \E k \in Keys :
    /\ \A i \in Accounts : accepted[i][k] = 1
    /\ votes[k] = NumAccounts
    /\ winning_proposal = k

\* C15: an account's has_voted box exists exactly when one of its vote calls
\* has been accepted, and then exactly one, on exactly one key; an account
\* without the box has no accepted call; a failed vote call writes no
\* has_voted box.
GuardMatchesContribution ==
  [][/\ \A i \in Accounts :
          /\ BoxExists(has_voted', i) <=> AcceptedFrom(i)' = 1
          /\ ~BoxExists(has_voted', i) => AcceptedFrom(i)' = 0
          /\ BoxExists(has_voted', i)
               => Cardinality({k \in Keys : accepted'[i][k] > 0}) = 1
     /\ (IsCall(last', "vote") /\ Failed(last')) => has_voted' = has_voted]_vars

GuardSetAndUnset ==
  /\ \E i \in Accounts : BoxExists(has_voted, i) /\ AcceptedFrom(i) = 1
  /\ \E i \in Accounts : ~BoxExists(has_voted, i) /\ AcceptedFrom(i) = 0
  /\ IsCall(last, "vote") /\ Failed(last)

\* C16: an add_proposal call creates at most one proposals box, the one keyed
\* by its own sender and the id, and leaves every other box as it was; a
\* funded call at an absent key of its sender succeeds whatever is stored at
\* the same id under another address.
KeysJointWithIdentity ==
  [][IsCall(last', "add_proposal")
       => /\ DOMAIN proposals' \ DOMAIN proposals
               \subseteq {Encode(last'.sender, i) : i \in ProposalIds}
          /\ \A k \in DOMAIN proposals : BoxExists(proposals', k) /\ proposals'[k] = proposals[k]
          /\ \A amount \in Amounts :
               LET sender == last'.sender
                   proposal == last'.proposal
                   proposal_id == last'.key[2]
                   k == Encode(sender, proposal_id)
                   delta == minBalance(has_voted, BoxSet(proposals, k, proposal), votes)
                              - minBalance(has_voted, proposals, votes)
               IN (/\ add_proposal(sender, proposal, proposal_id, AppAddress, amount)
                   /\ ~BoxExists(proposals, k)
                   /\ amount >= delta
                   /\ \E other \in Proposers \ {sender} :
                        BoxExists(proposals, Encode(other, proposal_id)))
                    => (~Failed(last') /\ BoxExists(proposals', k) /\ k[1] = sender)]_vars

SameIdTwoProposers ==
  /\ IsCall(last, "add_proposal") /\ ~Failed(last)
  /\ \E other \in Proposers \ {last.sender} :
       /\ BoxExists(proposals, Encode(other, last.key[2]))
       /\ proposals[Encode(other, last.key[2])] # proposals[last.key]

\* C17: a successful mint call creates one asset whose url, metadata hash,
\* name, unit name and reserve are those of the proposal stored at
\* winning_proposal and whose total is 1, and returns the id of that asset.
MintHandsWinner ==
  [][(IsCall(last', "mint") /\ ~Failed(last'))
       => LET p == proposals[winning_proposal]
              a == assets'[Len(assets')]
          IN /\ Len(assets') = Len(assets) + 1
             /\ SubSeq(assets', 1, Len(assets)) = assets
             /\ a.url = p.url
             /\ a.metadata_hash = p.metadata_hash
             /\ a.name = p.name
             /\ a.unit_name = p.unit_name
             /\ a.reserve = p.reserve
             /\ a.total = 1
             /\ last'.proposal = p
             /\ last'.output = Len(assets')]_vars

WinnerMinted ==
  /\ IsCall(last, "mint") /\ ~Failed(last)
  /\ Len(assets) >= 1
  /\ last.output = Len(assets)
  /\ assets[Len(assets)].url = proposals[winning_proposal].url

\* C18: whenever winning_proposal is not empty, a vote count is stored at that
\* key and equals winning_proposal_votes.
PointerMatchesOwnCount ==
  winning_proposal # EmptyBytes
    => (BoxExists(votes, winning_proposal) /\ votes[winning_proposal] = winning_proposal_votes)

PointerCountAboveOne ==
  /\ winning_proposal # EmptyBytes
  /\ winning_proposal_votes >= 2
  /\ votes[winning_proposal] = winning_proposal_votes
  /\ Cardinality(DOMAIN votes) >= 2

\* C19: in every state, winning_proposal is empty exactly when
\* winning_proposal_votes is 0 and exactly when no has_voted box exists; the
\* first accepted vote sets the pointer to count 1 and its key, and
\* winning_proposal_votes never decreases.
PointerDefaults ==
  /\ winning_proposal = EmptyBytes <=> winning_proposal_votes = 0
  /\ winning_proposal = EmptyBytes <=> DOMAIN has_voted = {}

PointerLifecycle ==
  [][/\ PointerDefaults
     /\ PointerDefaults'
     /\ winning_proposal_votes' >= winning_proposal_votes
     /\ (IsCall(last', "vote") /\ ~Failed(last') /\ DOMAIN has_voted = {})
          => (winning_proposal_votes' = 1 /\ winning_proposal' = last'.key)]_vars

FirstVoteTaken ==
  /\ IsCall(last, "vote") /\ ~Failed(last)
  /\ Cardinality(DOMAIN has_voted) = 1
  /\ winning_proposal_votes = 1
  /\ winning_proposal = last.key

\* C20: a successful mint call changes the outcome of no later call: every
\* add_proposal and vote call is accepted or rejected in the state after it as
\* in the state before it, and the proposal read of mint succeeds after it as
\* before; votes accepted between two successful mint calls can move the
\* pointer, so that the two calls mint different proposals.
MintLeavesGovernanceOpen ==
  [][(IsCall(last', "mint") /\ ~Failed(last'))
       => /\ \A sender \in Accounts, proposer \in Proposers, proposal_id \in ProposalIds :
               vote_run(Current, sender, proposer, proposal_id)'
                 = vote_run(Current, sender, proposer, proposal_id)
          /\ \A sender \in Proposers, proposal \in ProposalSet, proposal_id \in ProposalIds,
                receiver \in Receivers, amount \in Amounts :
               add_proposal_run(Current, sender, proposal, proposal_id, receiver, amount)'
                 = add_proposal_run(Current, sender, proposal, proposal_id, receiver, amount)
          /\ ~ProposalMissing(proposals, winning_proposal)'
          /\ proposals'[winning_proposal'] = last'.proposal]_vars

TwoDifferentMints ==
  /\ IsCall(last, "mint") /\ ~Failed(last)
  /\ Len(assets) = 2
  /\ assets[1] # assets[2]

====
